---- MODULE Spec2Model ----
(***************************************************************************)
(* fourget: the work queue of src/fourget/queue.py (Queue.complete,        *)
(* worker_task, Queue.get / put / task_done) running on the asyncio event  *)
(* loop.  The loop is cooperative: one callback ("handle") of the ready    *)
(* list runs at a time, a coroutine runs from one suspension point to the  *)
(* next without interleaving, and I/O completions are appended to the      *)
(* ready list only between two iterations of the loop.                     *)
(*                                                                         *)
(* The items of src/fourget/__main__.py are modelled too:                  *)
(* MediaDownloadItem.process with md5_path and download_file, executed on  *)
(* its own (FetchSpec), and a run of complete seeded with one              *)
(* ThreadReadItem (ThreadSpec, PortedSpec).                                *)
(***************************************************************************)
EXTENDS Integers, Sequences, FiniteSets, TLC

\* ---------------------------------------------------------------- bounds
MaxItems == 3      \* items that exist in one run (initial + enqueued later)
MaxWorkers == 2    \* largest worker_count
MaxCap == 1        \* largest queue_maxsize (0 is unbounded)
MaxLen == 2        \* longest file content, in bytes
MaxChunk == 2      \* largest max_chunk_size
MaxRuns == 2       \* executions of one MediaDownloadItem
MaxPosts == 3      \* most posts of a thread

Items == 1..MaxItems
Joiner == 0                       \* the task named "joiner"
Workers == 1..MaxWorkers
Tasks == {Joiner} \cup Workers

VARIABLES
    worker_count,      \* argument of complete
    maxsize,           \* queue_maxsize of Queue.create
    initial_items,     \* argument of complete, <<1, .., n>>
    queue,             \* asyncio.Queue._queue: the buffer
    unfinished_tasks,  \* asyncio.Queue._unfinished_tasks
    finished,          \* asyncio.Queue._finished (an Event) is set
    getters,           \* asyncio.Queue._getters: tasks whose getter future is queued
    putters,           \* asyncio.Queue._putters
    tstate,            \* each task's position
    fut,               \* the future a suspended task awaits: none/pending/result/cancelled
    must_cancel,       \* Task._must_cancel
    item,              \* the item a worker holds (0: none)
    putting,           \* the child a worker's item is enqueueing (0: none)
    tres,              \* each finished task's result or exception
    ready,             \* the loop's ready list of handles
    ntodo,             \* handles left to run in the current loop iteration
    running,           \* {t}: worker t's coroutine is running; {}: none is
    mainpc,            \* position of complete(): start/wait/gather/returned/raised
    waiter_done,       \* asyncio.wait's waiter future has its result
    gather_left,       \* tasks asyncio.gather still waits for
    callbacks,         \* the arguments stop_reason_callback was called with
    error,             \* the exception complete raised to its caller
    next_item,         \* the next item id to create
    executed,          \* how often each item's process() was started
    done_calls,        \* how often task_done() was called for each item
    enqueued,          \* the items put_nowait has put so far
    nget, ndone,       \* calls of get_nowait / task_done so far
    first_done,        \* result of the task that finished first
    stopped_by,        \* items whose process() returned a StopReason, in order
    failed_by,         \* items whose process() raised, in order
    pending_at_stop,   \* the buffer at the first StopReason
    late_starts,       \* items whose process() started after the first StopReason
    put_order,         \* the items in the order in which put_nowait put them
    get_order,         \* the items in the order in which get_nowait handed them out
    \* MediaDownloadItem.process executed on its own
    path,              \* the file at output_path: [exists, data]
    body,              \* the bytes the server sends for post_file.url
    post_md5,          \* post_file.md5
    post_size,         \* post_file.size
    max_chunk_size,    \* max_chunk_size of md5_path and download_file
    fpc,               \* position of process(): idle/stream/chunk
    sent,              \* bytes of body the running download_file has written
    transfers,         \* calls of download_file in the last execution
    advanced,          \* bytes given to PROGRESS.advance in the last execution
    before,            \* the file as the last execution found it
    last,              \* how the last execution ended
    prev,              \* how the execution before it ended
    runs,              \* executions started so far
    \* a run seeded with a ThreadReadItem
    kind,              \* each item's class, and a MediaDownloadItem's post
    status,            \* status_code of the thread's JSON response
    posts,             \* the thread's posts: TRUE for a post with a file
    step,              \* how far a worker's item is in its process()
    thread_dir,        \* thread_dir exists
    ondisk,            \* the file of each post in thread_dir
    recorded,          \* bytes given to PROGRESS.advance
    saved,             \* thread.json is written
    made_dir,          \* thread_dir.mkdir was called
    had,               \* the posts whose file was on disk, whole, before the run
    exc                \* the exception each item's execution raised

qvars == <<queue, unfinished_tasks, finished, getters, putters>>
tvars == <<tstate, fut, must_cancel, item, putting, tres>>
lvars == <<ready, ntodo, running>>
mvars == <<mainpc, waiter_done, gather_left, callbacks, error>>
cvars == <<worker_count, maxsize, initial_items>>
gvars == <<next_item, executed, done_calls, enqueued, nget, ndone, first_done,
           stopped_by, failed_by, pending_at_stop, late_starts, put_order,
           get_order>>
fvars == <<path, body, post_md5, post_size, max_chunk_size, fpc, sent,
           transfers, advanced, before, last, prev, runs>>
hvars == <<kind, status, posts, step, thread_dir, ondisk, recorded, saved,
           made_dir, had, exc>>
svars == <<fvars, hvars>>
vars == <<cvars, qvars, tvars, lvars, mvars, gvars, svars>>

\* ---------------------------------------------------------------- values
NoResult == [kind |-> "none", by |-> 0]
StopReason(i) == [kind |-> "stop", by |-> i]
AllItemsProcessed == [kind |-> "drained", by |-> 0]
ItemError(i) == [kind |-> "error", by |-> i]
CancelledError == [kind |-> "cancelled", by |-> 0]
ValueError == [kind |-> "ValueError", by |-> 0]

Handle(k, t) == [k |-> k, t |-> t]

\* A path of the file system: no file there, or a file with its bytes.
Absent == [exists |-> FALSE, data |-> <<>>]
File(d) == [exists |-> TRUE, data |-> d]
Bytes == {1, 2}
Contents == UNION {[1..n -> Bytes] : n \in 0..MaxLen}

DoneStates == {"returned", "raised", "cancelled"}
Suspended == {"new", "getter", "putter", "io", "join"}
Started == {t \in Tasks : tstate[t] # "none"}
DoneTasks == {t \in Started : tstate[t] \in DoneStates}
Ended == mainpc \in {"returned", "raised"}

Range(sq) == {sq[i] : i \in 1..Len(sq)}
SeqToN(n) == [i \in 1..n |-> i]
Orders(S) == {s \in [1..Cardinality(S) -> S] :
                 \A i, j \in 1..Cardinality(S) : i # j => s[i] # s[j]}

\* ---------------------------------------------------------------- asyncio.Queue
empty(q) == q = <<>>

\* A full test that lets one item too many in.
full_off_by_one(q) == maxsize > 0 /\ Len(q) > maxsize

\* asyncio.Queue.full: never with maxsize <= 0, else at maxsize items.
full(q) == maxsize > 0 /\ Len(q) >= maxsize

RECURSIVE SkipDone(_, _)
SkipDone(ws, f) ==
    IF ws = <<>> THEN <<>>
    ELSE IF f[Head(ws)] = "pending" THEN ws
    ELSE SkipDone(Tail(ws), f)

\* _wakeup_next: pop waiters up to the first one that is not done, and wake it.
wakeup_next(ws, f, r) ==
    LET rest == SkipDone(ws, f) IN
    IF rest = <<>> THEN [w |-> <<>>, f |-> f, r |-> r]
    ELSE [w |-> Tail(rest),
          f |-> [f EXCEPT ![Head(rest)] = "result"],
          r |-> Append(r, Handle("step", Head(rest)))]

\* A get that hands out the item put last.
rightmost(q) == q[Len(q)]

\* asyncio.Queue._get, deque.popleft: the item handed out is the buffer's head.
leftmost(q) == Head(q)

\* A get that hands out the head and leaves it in the buffer.
popleft_keeps_head(q) == q

\* asyncio.Queue._get: the buffer without its head.
popleft(q) == Tail(q)

Remove(ws, t) == SelectSeq(ws, LAMBDA x : x # t)

\* A finished task schedules the done-callbacks registered on it: wait()'s
\* _on_completion while complete is in asyncio.wait, gather()'s while it is in
\* asyncio.gather.
ScheduleDone(t, r) ==
    IF mainpc = "wait" THEN Append(r, Handle("on_completion", t))
    ELSE IF mainpc = "gather" /\ t \in gather_left
         THEN Append(r, Handle("done_callback", t))
    ELSE r

NoteFirst(res) == IF first_done = NoResult THEN res ELSE first_done

\* ---------------------------------------------------------------- Init
\* A new Queue (Queue.create, asyncio.Queue.__init__) and a loop on which
\* nothing runs yet; I are the items that can exist in the run.
QueueNew(I) ==
    /\ queue = <<>> /\ unfinished_tasks = 0 /\ finished = TRUE
    /\ getters = <<>> /\ putters = <<>>
    /\ tstate = [t \in Tasks |-> "none"]
    /\ fut = [t \in Tasks |-> "none"]
    /\ must_cancel = [t \in Tasks |-> FALSE]
    /\ item = [t \in Tasks |-> 0]
    /\ putting = [t \in Tasks |-> 0]
    /\ tres = [t \in Tasks |-> NoResult]
    /\ ready = <<>> /\ ntodo = 0 /\ running = {}
    /\ mainpc = "start" /\ waiter_done = FALSE /\ gather_left = {}
    /\ callbacks = <<>> /\ error = NoResult
    /\ next_item = Len(initial_items) + 1
    /\ executed = [i \in I |-> 0]
    /\ done_calls = [i \in I |-> 0]
    /\ enqueued = {} /\ nget = 0 /\ ndone = 0
    /\ first_done = NoResult
    /\ stopped_by = <<>> /\ failed_by = <<>>
    /\ pending_at_stop = <<>> /\ late_starts = {}
    /\ put_order = <<>> /\ get_order = <<>>

\* No MediaDownloadItem is executed on its own.
FetchIdle ==
    /\ path = Absent /\ body = <<>> /\ post_md5 = 0 /\ post_size = 0
    /\ max_chunk_size = 1 /\ fpc = "idle" /\ sent = 0 /\ transfers = 0
    /\ advanced = 0 /\ before = Absent /\ last = "none" /\ prev = "none"
    /\ runs = 0

\* The items are not those of __main__.py.
SceneIdle ==
    /\ kind = [i \in Items |-> [k |-> "item", post |-> 0]]
    /\ status = 0 /\ posts = <<>>
    /\ step = [t \in Workers |-> 0]
    /\ thread_dir = FALSE
    /\ ondisk = [p \in 1..MaxPosts |-> "absent"]
    /\ recorded = 0 /\ saved = FALSE /\ made_dir = FALSE /\ had = {}
    /\ exc = [i \in Items |-> ""]

Init ==
    /\ worker_count \in 0..MaxWorkers
    /\ maxsize \in 0..MaxCap
    /\ initial_items \in {SeqToN(n) : n \in 0..MaxItems}
    /\ QueueNew(Items)
    /\ FetchIdle /\ SceneIdle

\* ---------------------------------------------------------------- complete
\* Lines 74-80, for item in initial_items: put_nowait(item), which raises
\* QueueFull when the buffer is full.  q is the buffer so far, rest the items
\* still to put; ok says that every item was put.
\* A seeding that does not look whether the buffer is full.
Seed_unchecked(q, rest) == [q |-> q \o rest, ok |-> TRUE]

RECURSIVE Seed(_, _)
Seed(q, rest) ==
    IF rest = <<>> THEN [q |-> q, ok |-> TRUE]
    ELSE IF full(q) THEN [q |-> q, ok |-> FALSE]
    ELSE Seed(Append(q, Head(rest)), Tail(rest))

\* A loop that creates one worker too few.
worker_ids_one_less(n) == 1..(n - 1)

\* Lines 91-92, for _ in range(worker_count): the workers created, numbered
\* in the order of their create_task.
worker_ids(n) == 1..n

\* Queue.complete up to its first suspension: seed the queue with put_nowait,
\* create the joiner and the workers (each create_task schedules the task's
\* first step), and wait for the first task to finish.
Complete ==
    /\ mainpc = "start"
    /\ LET s == Seed(<<>>, initial_items) IN
       /\ queue' = s.q
       /\ unfinished_tasks' = Len(s.q)
       /\ finished' = (Len(s.q) = 0)
       /\ enqueued' = Range(s.q)
       /\ put_order' = s.q
       /\ IF ~s.ok
          THEN \* lines 77-80: QueueFull becomes ValueError
               /\ mainpc' = "raised"
               /\ error' = ValueError
               /\ UNCHANGED <<tstate, ready>>
          ELSE /\ tstate' = [t \in Tasks |->
                               IF t = Joiner \/ t \in worker_ids(worker_count)
                               THEN "new" ELSE "none"]
               /\ ready' = <<Handle("step", Joiner)>>
                             \o [i \in worker_ids(worker_count) |-> Handle("step", i)]
               /\ mainpc' = "wait"
               /\ error' = error
    /\ UNCHANGED <<cvars, getters, putters, fut, must_cancel, item, putting, tres, ntodo, running, waiter_done, get_order, gather_left,
                   callbacks, next_item, executed, done_calls, nget, ndone,
                   first_done, stopped_by, failed_by, pending_at_stop,
                   late_starts>>

\* ---------------------------------------------------------------- the loop
LoopIdle == mainpc \notin {"start", "returned", "raised"} /\ running = {}

\* One iteration of the event loop starts: it will run the handles that are
\* ready now; handles scheduled meanwhile wait for the next iteration.
RunOnce ==
    /\ LoopIdle /\ ntodo = 0 /\ ready # <<>>
    /\ ntodo' = Len(ready)
    /\ UNCHANGED <<cvars, qvars, tvars, ready, running, mvars, gvars>>

\* The I/O an item's process() awaits completes; the loop learns of it between
\* two iterations.
IoReady(t) ==
    /\ LoopIdle /\ ntodo = 0
    /\ tstate[t] = "io" /\ fut[t] = "pending"
    /\ fut' = [fut EXCEPT ![t] = "result"]
    /\ ready' = Append(ready, Handle("step", t))
    /\ UNCHANGED <<cvars, qvars, tstate, must_cancel, item, putting,
                   tres, ntodo, running, mvars, gvars>>

NextHandle(h) == LoopIdle /\ ntodo > 0 /\ ready # <<>> /\ Head(ready) = h

\* ---------------------------------------------------------------- task steps
\* Task.__step of a worker that is not being cancelled: the coroutine goes on
\* from where it was suspended.
Resume(t) ==
    /\ NextHandle(Handle("step", t))
    /\ t \in Workers /\ ~must_cancel[t] /\ fut[t] # "cancelled"
    /\ tstate' = [tstate EXCEPT ![t] =
                     CASE tstate[t] = "new" -> "get"
                       [] tstate[t] = "getter" -> "get"
                       [] tstate[t] = "putter" -> "put"
                       [] tstate[t] = "io" -> "body"]
    /\ fut' = [fut EXCEPT ![t] = "none"]
    /\ ready' = Tail(ready) /\ ntodo' = ntodo - 1
    /\ running' = {t}
    /\ UNCHANGED <<cvars, qvars, must_cancel, item, putting, tres,
                   mvars, gvars>>

\* Task.__step of a cancelled worker: CancelledError is thrown into the
\* coroutine at its suspension point.  Queue.get and Queue.put clean their
\* waiter up and pass a wake-up they cannot use on; nothing in process() or
\* worker_task catches the exception, so the task ends cancelled (still holding
\* its item, if it had one).
Cancelled(t) ==
    /\ NextHandle(Handle("step", t))
    /\ t \in Workers /\ (must_cancel[t] \/ fut[t] = "cancelled")
    /\ LET f0 == [fut EXCEPT ![t] = "none"]
           r0 == Tail(ready)
           gs == Remove(getters, t)
           ps == Remove(putters, t)
           wg == IF tstate[t] = "getter" /\ ~empty(queue) /\ fut[t] # "cancelled"
                 THEN wakeup_next(gs, f0, r0)
                 ELSE [w |-> gs, f |-> f0, r |-> r0]
           wp == IF tstate[t] = "putter" /\ ~full(queue) /\ fut[t] # "cancelled"
                 THEN wakeup_next(ps, wg.f, wg.r)
                 ELSE [w |-> ps, f |-> wg.f, r |-> wg.r]
       IN /\ getters' = wg.w
          /\ putters' = wp.w
          /\ fut' = wp.f
          /\ ready' = ScheduleDone(t, wp.r)
    /\ ntodo' = ntodo - 1
    /\ tstate' = [tstate EXCEPT ![t] = "cancelled"]
    /\ tres' = [tres EXCEPT ![t] = CancelledError]
    /\ must_cancel' = [must_cancel EXCEPT ![t] = FALSE]
    /\ first_done' = NoteFirst(CancelledError)
    /\ UNCHANGED <<cvars, queue, unfinished_tasks, finished, item, putting, running, mvars, next_item, executed, done_calls,
                   enqueued, nget, ndone, stopped_by, failed_by, pending_at_stop,
                   late_starts, put_order, get_order>>

\* all_items_processed: join() returns at once if nothing is unfinished, else
\* waits for the _finished event; then the task returns its StopReason.  A
\* cancelled joiner ends cancelled.
JoinerStep ==
    /\ NextHandle(Handle("step", Joiner))
    /\ ntodo' = ntodo - 1
    /\ IF must_cancel[Joiner] \/ fut[Joiner] = "cancelled"
       THEN /\ tstate' = [tstate EXCEPT ![Joiner] = "cancelled"]
            /\ tres' = [tres EXCEPT ![Joiner] = CancelledError]
            /\ fut' = [fut EXCEPT ![Joiner] = "none"]
            /\ ready' = ScheduleDone(Joiner, Tail(ready))
            /\ first_done' = NoteFirst(CancelledError)
       ELSE IF tstate[Joiner] = "new" /\ unfinished_tasks > 0 /\ ~finished
       THEN /\ tstate' = [tstate EXCEPT ![Joiner] = "join"]
            /\ fut' = [fut EXCEPT ![Joiner] = "pending"]
            /\ ready' = Tail(ready)
            /\ UNCHANGED <<tres, first_done>>
       ELSE /\ tstate' = [tstate EXCEPT ![Joiner] = "returned"]
            /\ tres' = [tres EXCEPT ![Joiner] = AllItemsProcessed]
            /\ fut' = [fut EXCEPT ![Joiner] = "none"]
            /\ ready' = ScheduleDone(Joiner, Tail(ready))
            /\ first_done' = NoteFirst(AllItemsProcessed)
    /\ must_cancel' = [must_cancel EXCEPT ![Joiner] = FALSE]
    /\ UNCHANGED <<cvars, qvars, item, putting, running, mvars,
                   next_item, executed, done_calls, enqueued, nget, ndone,
                   stopped_by, failed_by, pending_at_stop, late_starts,
                   put_order, get_order>>

\* ---------------------------------------------------------------- worker_task
\* Line 19, item = await queue.get(): with an empty buffer the worker queues a
\* getter future and suspends; otherwise get_nowait pops the head, wakes the
\* next putter, and line 21 starts the item's process().
WorkerGet(t) ==
    /\ running = {t} /\ tstate[t] = "get"
    /\ IF empty(queue)
       THEN /\ getters' = Append(getters, t)
            /\ fut' = [fut EXCEPT ![t] = "pending"]
            /\ tstate' = [tstate EXCEPT ![t] = "getter"]
            /\ running' = {}
            /\ UNCHANGED <<queue, putters, ready, item, executed, nget,
                           late_starts, get_order>>
       ELSE LET it == leftmost(queue)
                w == wakeup_next(putters, fut, ready)
            IN /\ queue' = popleft(queue)
               /\ putters' = w.w /\ fut' = w.f /\ ready' = w.r
               /\ item' = [item EXCEPT ![t] = it]
               /\ tstate' = [tstate EXCEPT ![t] = "process"]
               /\ executed' = [executed EXCEPT ![it] = @ + 1]
               /\ nget' = nget + 1
               /\ get_order' = Append(get_order, it)
               /\ late_starts' = IF stopped_by # <<>>
                                 THEN late_starts \cup {it} ELSE late_starts
               /\ UNCHANGED <<getters, running>>
    /\ UNCHANGED <<cvars, unfinished_tasks, finished, must_cancel, putting,
                   tres, ntodo, mvars, next_item, done_calls, enqueued, ndone,
                   first_done, stopped_by, failed_by, pending_at_stop,
                   put_order>>

\* Worker t is running its item's process(): "process" at its start, "body"
\* after the I/O it began with or after a put.
InProcess(t) == tstate[t] \in {"process", "body"}

\* process() awaits I/O that is not ready: the worker suspends on its future.
AwaitIO(t) ==
    /\ running = {t}
    /\ tstate' = [tstate EXCEPT ![t] = "io"]
    /\ fut' = [fut EXCEPT ![t] = "pending"]
    /\ running' = {}
    /\ UNCHANGED <<cvars, qvars, must_cancel, item, putting, tres, ready,
                   ntodo, mvars, gvars>>

\* Item.process begins by awaiting I/O (ThreadReadItem: the HTTP response;
\* MediaDownloadItem: the chunks of the download), or does not (JSONSaveItem).
ItemAwait(t) == tstate[t] = "process" /\ AwaitIO(t)

\* Item.process enqueues a new item with await queue.put(child): while the
\* buffer is full the worker queues a putter future and suspends; otherwise
\* put_nowait appends the child, counts it unfinished, clears the _finished
\* event and wakes the next getter.
ItemPut(t) ==
    /\ running = {t}
    /\ \/ tstate[t] = "put"
       \/ InProcess(t) /\ next_item \in DOMAIN executed
    /\ LET c == IF tstate[t] = "put" THEN putting[t] ELSE next_item IN
       /\ next_item' = IF tstate[t] = "put" THEN next_item ELSE next_item + 1
       /\ IF full(queue)
          THEN /\ putters' = Append(putters, t)
               /\ fut' = [fut EXCEPT ![t] = "pending"]
               /\ tstate' = [tstate EXCEPT ![t] = "putter"]
               /\ putting' = [putting EXCEPT ![t] = c]
               /\ running' = {}
               /\ UNCHANGED <<queue, unfinished_tasks, finished, getters,
                              ready, enqueued, put_order>>
          ELSE LET w == wakeup_next(getters, fut, ready) IN
               /\ queue' = Append(queue, c)
               /\ unfinished_tasks' = unfinished_tasks + 1
               /\ finished' = FALSE
               /\ getters' = w.w /\ fut' = w.f /\ ready' = w.r
               /\ tstate' = [tstate EXCEPT ![t] = "body"]
               /\ putting' = [putting EXCEPT ![t] = 0]
               /\ enqueued' = enqueued \cup {c}
               /\ put_order' = Append(put_order, c)
               /\ UNCHANGED <<putters, running>>
    /\ UNCHANGED <<cvars, must_cancel, item, tres, ntodo, mvars,
                   executed, done_calls, nget, ndone, first_done, stopped_by,
                   failed_by, pending_at_stop, late_starts, get_order>>

\* The _finished event is set: the joiner, if it waits for it, is woken.
SetFinished(f, r) ==
    IF tstate[Joiner] = "join" /\ f[Joiner] = "pending"
    THEN [f |-> [f EXCEPT ![Joiner] = "result"],
          r |-> Append(r, Handle("step", Joiner))]
    ELSE [f |-> f, r |-> r]

\* A task_done that sets the _finished event one item early.
task_done_early(u, fin, f, r) ==
    IF u - 1 <= 1
    THEN [u |-> u - 1, fin |-> TRUE, f |-> SetFinished(f, r).f,
          r |-> SetFinished(f, r).r]
    ELSE [u |-> u - 1, fin |-> fin, f |-> f, r |-> r]

\* A task_done that forgets the decrement.
task_done_no_decrement(u, fin, f, r) == [u |-> u, fin |-> fin, f |-> f, r |-> r]

\* Queue.task_done: one unfinished task less; at zero the _finished event is set.
task_done(u, fin, f, r) ==
    IF u - 1 = 0
    THEN [u |-> 0, fin |-> TRUE, f |-> SetFinished(f, r).f,
          r |-> SetFinished(f, r).r]
    ELSE [u |-> u - 1, fin |-> fin, f |-> f, r |-> r]

\* Lines 21-26: process() returns sr (None or a StopReason); the worker calls
\* task_done, and returns the StopReason or goes round the loop.
ItemReturn(t, sr) ==
    /\ running = {t} /\ InProcess(t)
    /\ LET it == item[t]
           d == task_done(unfinished_tasks, finished, fut, ready)
       IN /\ unfinished_tasks' = d.u
          /\ finished' = d.fin
          /\ fut' = d.f
          /\ done_calls' = [done_calls EXCEPT ![it] = @ + 1]
          /\ ndone' = ndone + 1
          /\ item' = [item EXCEPT ![t] = 0]
          /\ IF sr = "stop"
             THEN /\ tstate' = [tstate EXCEPT ![t] = "returned"]
                  /\ tres' = [tres EXCEPT ![t] = StopReason(it)]
                  /\ ready' = ScheduleDone(t, d.r)
                  /\ running' = {}
                  /\ first_done' = NoteFirst(StopReason(it))
                  /\ stopped_by' = Append(stopped_by, it)
                  /\ pending_at_stop' = IF stopped_by = <<>> THEN queue
                                        ELSE pending_at_stop
             ELSE /\ tstate' = [tstate EXCEPT ![t] = "get"]
                  /\ ready' = d.r
                  /\ UNCHANGED <<tres, running, first_done, stopped_by,
                                 pending_at_stop>>
    /\ UNCHANGED <<cvars, queue, getters, putters, must_cancel, putting,
                   ntodo, mvars, next_item, executed, enqueued, nget, failed_by,
                   late_starts, put_order, get_order>>

\* Line 21: process() raises.  The exception leaves worker_task, whose task
\* ends with it; line 23 is not reached.
ItemRaise(t) ==
    /\ running = {t} /\ InProcess(t)
    /\ tstate' = [tstate EXCEPT ![t] = "raised"]
    /\ tres' = [tres EXCEPT ![t] = ItemError(item[t])]
    /\ ready' = ScheduleDone(t, ready)
    /\ running' = {}
    /\ first_done' = NoteFirst(ItemError(item[t]))
    /\ failed_by' = Append(failed_by, item[t])
    /\ UNCHANGED <<cvars, qvars, fut, must_cancel, item, putting,
                   ntodo, mvars, next_item, executed, done_calls, enqueued, nget,
                   ndone, stopped_by, pending_at_stop, late_starts, put_order,
                   get_order>>

\* ---------------------------------------------------------------- complete, resumed
\* asyncio.wait's _on_completion(t): the first one gives the waiter its result,
\* which schedules complete's wake-up; the later ones find the waiter done.
OnCompletion(t) ==
    /\ NextHandle(Handle("on_completion", t))
    /\ ntodo' = ntodo - 1
    /\ waiter_done' = TRUE
    /\ ready' = IF waiter_done THEN Tail(ready)
                ELSE Append(Tail(ready), Handle("main", Joiner))
    /\ UNCHANGED <<cvars, qvars, tvars, running, mainpc, gather_left,
                   callbacks, error, gvars>>

\* Lines 99-101, for task in done: task.result() re-raises the task's
\* exception and otherwise gives its StopReason to stop_reason_callback.
\* ord is the order in which the set is iterated; cbs the callback's calls so
\* far.  The result: the calls made, and the exception raised (if any).
RECURSIVE Interpret(_, _)
Interpret(ord, cbs) ==
    IF ord = <<>> THEN [cb |-> cbs, err |-> NoResult]
    ELSE LET r == tres[Head(ord)] IN
         IF r.kind \in {"error", "cancelled"} THEN [cb |-> cbs, err |-> r]
         ELSE Interpret(Tail(ord), IF r # NoResult THEN Append(cbs, r) ELSE cbs)

\* The sets asyncio.wait returns.
done == DoneTasks
pending == Started \ DoneTasks

\* Task.cancel cancels the future the task waits for, if that is still
\* pending (which schedules the task's wake-up), and otherwise sets
\* _must_cancel for the step that is already scheduled.
CancelsFuture(t) == fut[t] = "pending"

\* Lines 94-107 after the wait: interpret the done tasks, cancel the pending
\* ones and gather them with return_exceptions=True.
CompleteResume ==
    /\ NextHandle(Handle("main", Joiner)) /\ mainpc = "wait"
    /\ ntodo' = ntodo - 1
    /\ \E ord \in Orders(done) :
         LET res == Interpret(ord, callbacks)
             waiting == {t \in pending : CancelsFuture(t)}
         IN /\ callbacks' = res.cb
            /\ IF res.err # NoResult
               THEN /\ mainpc' = "raised"
                    /\ error' = res.err
                    /\ ready' = Tail(ready)
                    /\ UNCHANGED <<fut, must_cancel, gather_left>>
               ELSE \E co \in Orders(waiting) :
                    /\ fut' = [t \in Tasks |->
                                 IF t \in waiting THEN "cancelled" ELSE fut[t]]
                    /\ must_cancel' = [t \in Tasks |->
                                 must_cancel[t] \/ t \in pending \ waiting]
                    /\ ready' = Tail(ready)
                                  \o [i \in 1..Len(co) |-> Handle("step", co[i])]
                    /\ gather_left' = pending
                    /\ mainpc' = IF pending = {} THEN "returned" ELSE "gather"
                    /\ error' = error
    /\ UNCHANGED <<cvars, qvars, tstate, item, putting, tres, running,
                   waiter_done, gvars>>

\* asyncio.gather's _done_callback(t): the last one gives the outer future its
\* result, which schedules complete's wake-up.
GatherCallback(t) ==
    /\ NextHandle(Handle("done_callback", t))
    /\ ntodo' = ntodo - 1
    /\ gather_left' = gather_left \ {t}
    /\ ready' = IF gather_left \ {t} = {}
                THEN Append(Tail(ready), Handle("main", Joiner))
                ELSE Tail(ready)
    /\ UNCHANGED <<cvars, qvars, tvars, running, mainpc, waiter_done,
                   callbacks, error, gvars>>

\* Line 107: the gather is over, with the cancelled tasks' CancelledErrors as
\* results; complete returns None.
CompleteReturn ==
    /\ NextHandle(Handle("main", Joiner)) /\ mainpc = "gather"
    /\ ntodo' = ntodo - 1
    /\ ready' = Tail(ready)
    /\ mainpc' = "returned"
    /\ UNCHANGED <<cvars, qvars, tvars, running, waiter_done, gather_left,
                   callbacks, error, gvars>>

\* ---------------------------------------------------------------- md5_path, download_file
Min(a, b) == IF a <= b THEN a ELSE b

\* hashlib's update: the digest is modelled by the number that has the bytes
\* hashed so far as its digits, so that different contents have different
\* digests (md5 without collisions).
RECURSIVE update(_, _)
update(h, data) ==
    IF data = <<>> THEN h
    ELSE update(h * (Cardinality(Bytes) + 1) + Head(data), Tail(data))

\* hashlib.md5(data).digest()
md5(data) == update(0, data)

\* Lines 177-178, while data := f.read(max_chunk_size): md5_hash.update(data)
RECURSIVE md5_loop(_, _, _)
md5_loop(h, rest, n) ==
    IF rest = <<>> THEN h
    ELSE md5_loop(update(h, SubSeq(rest, 1, Min(n, Len(rest)))),
                  SubSeq(rest, Min(n, Len(rest)) + 1, Len(rest)), n)

\* md5_path(path, max_chunk_size) of an existing file.
md5_path(f, n) == md5_loop(0, f.data, n)

\* A test that takes any existing file for the wanted one.
ShouldSkip_exists_only(f, m, n) == f.exists

\* Line 228: output_path.exists() and await md5_path(output_path) == md5.
ShouldSkip(f, m, n) == f.exists /\ md5_path(f, n) = m

\* An open that appends to what is there.
open_ab(f) == IF f.exists THEN f ELSE File(<<>>)

\* Line 187, path.open("wb"): the file is created or truncated.
open_wb(f) == File(<<>>)

\* Line 189, f.write(chunk).
write(f, chunk) == File(f.data \o chunk)

\* Line 188: the chunk of at most n bytes that follows the k bytes sent.
NextChunk(b, k, n) == SubSeq(b, k + 1, Min(k + n, Len(b)))

\* ---------------------------------------------------------------- MediaDownloadItem.process
\* process() is called on an item whose post_file has md5 and size of some
\* content, for a URL that serves body, with output_path as it is.  Lines
\* 228-233: a file with the wanted digest is there, its size is reported and
\* process() returns.  Lines 235-236 otherwise: download_file is called and
\* awaits the response.
MediaStart ==
    /\ fpc = "idle" /\ runs < MaxRuns
    /\ runs' = runs + 1
    /\ before' = path
    /\ prev' = last
    /\ sent' = 0
    /\ IF ShouldSkip(path, post_md5, max_chunk_size)
       THEN /\ advanced' = post_size
            /\ transfers' = 0
            /\ last' = "skipped"
            /\ fpc' = "idle"
       ELSE /\ advanced' = 0
            /\ transfers' = 1
            /\ last' = "running"
            /\ fpc' = "stream"
    /\ UNCHANGED <<path, body, post_md5, post_size, max_chunk_size>>
    /\ UNCHANGED <<cvars, qvars, tvars, lvars, mvars, gvars, hvars>>

\* Lines 186-188: the response is there; the file is opened for writing and
\* the first chunk awaited.
StreamOpened ==
    /\ fpc = "stream"
    /\ path' = open_wb(path)
    /\ fpc' = "chunk"
    /\ UNCHANGED <<body, post_md5, post_size, max_chunk_size, sent, transfers,
                   advanced, before, last, prev, runs>>
    /\ UNCHANGED <<cvars, qvars, tvars, lvars, mvars, gvars, hvars>>

\* Lines 188-190 and 238: a chunk arrives, is written, and its length is
\* yielded and given to PROGRESS.advance; the next chunk is awaited.
ChunkWritten ==
    /\ fpc = "chunk" /\ sent < Len(body)
    /\ LET chunk == NextChunk(body, sent, max_chunk_size) IN
       /\ path' = write(path, chunk)
       /\ sent' = sent + Len(chunk)
       /\ advanced' = advanced + Len(chunk)
    /\ UNCHANGED <<body, post_md5, post_size, max_chunk_size, fpc, transfers,
                   before, last, prev, runs>>
    /\ UNCHANGED <<cvars, qvars, tvars, lvars, mvars, gvars, hvars>>

\* The response has no more chunks: the file is closed and process() returns.
StreamEnds ==
    /\ fpc = "chunk" /\ sent = Len(body)
    /\ fpc' = "idle"
    /\ last' = "fetched"
    /\ UNCHANGED <<path, body, post_md5, post_size, max_chunk_size, sent,
                   transfers, advanced, before, prev, runs>>
    /\ UNCHANGED <<cvars, qvars, tvars, lvars, mvars, gvars, hvars>>

\* The task is cancelled, or the transport fails, while process() awaits the
\* response or a chunk: the exception leaves process(), the with blocks close
\* the file as it is.  The execution is "torn" if it had opened the file and
\* written fewer chunks than the body has.
Interrupted ==
    /\ fpc \in {"stream", "chunk"}
    /\ fpc' = "idle"
    /\ last' = IF fpc = "chunk" /\ sent < Len(body) THEN "torn"
               ELSE "interrupted"
    /\ UNCHANGED <<path, body, post_md5, post_size, max_chunk_size, sent,
                   transfers, advanced, before, prev, runs>>
    /\ UNCHANGED <<cvars, qvars, tvars, lvars, mvars, gvars, hvars>>

FetchInit ==
    /\ worker_count = 0 /\ maxsize = 0 /\ initial_items = <<>>
    /\ QueueNew(Items) /\ SceneIdle
    /\ path \in {Absent} \cup {File(d) : d \in Contents}
    /\ body \in Contents
    /\ \E want \in Contents : post_md5 = md5(want) /\ post_size = Len(want)
    /\ max_chunk_size \in 1..MaxChunk
    /\ fpc = "idle" /\ sent = 0 /\ transfers = 0 /\ advanced = 0
    /\ before = Absent /\ last = "none" /\ prev = "none" /\ runs = 0

FetchNext ==
    \/ MediaStart
    \/ StreamOpened
    \/ ChunkWritten
    \/ StreamEnds
    \/ Interrupted

FetchSpec == FetchInit /\ [][FetchNext]_vars

\* The steps of the loop, of the joiner, of complete, and of a worker outside
\* its item's process().
LoopNext ==
    \/ Complete /\ UNCHANGED svars
    \/ RunOnce /\ UNCHANGED svars
    \/ \E t \in Workers : IoReady(t) /\ UNCHANGED svars
    \/ \E t \in Workers : Resume(t) /\ UNCHANGED svars
    \/ \E t \in Workers : Cancelled(t) /\ UNCHANGED svars
    \/ JoinerStep /\ UNCHANGED svars
    \/ \E t \in Workers : WorkerGet(t) /\ UNCHANGED svars
    \/ \E t \in Tasks : OnCompletion(t) /\ UNCHANGED svars
    \/ CompleteResume /\ UNCHANGED svars
    \/ \E t \in Tasks : GatherCallback(t) /\ UNCHANGED svars
    \/ CompleteReturn /\ UNCHANGED svars

\* ---------------------------------------------------------------- the items of __main__.py
\* The items of a run seeded with one ThreadReadItem: that item, the
\* JSONSaveItem and one MediaDownloadItem for each post.
ThreadItems == 1..(MaxPosts + 2)

\* post.file.size ("fsize") of the file of post p.
FileSize(p) == 10 * p

\* The class of the item worker t holds.
Holds(t, k) == item[t] # 0 /\ kind[item[t]].k = k

\* Lines 290-300: one enqueue of a MediaDownloadItem for each post from p on
\* that has a file.
RECURSIVE MediaOps(_, _)
MediaOps(ps, p) ==
    IF p > Len(ps) THEN <<>>
    ELSE (IF ps[p] THEN <<[op |-> "enqueue_media", post |-> p]>> ELSE <<>>)
           \o MediaOps(ps, p + 1)

\* A process() that makes the directory after the last enqueue.
ThreadReadSteps_mkdir_last(ps) ==
    <<[op |-> "enqueue_json", post |-> 0]>> \o MediaOps(ps, 1)
      \o <<[op |-> "mkdir", post |-> 0]>>

\* ThreadReadItem.process after the response (lines 284-300): enqueue the
\* JSONSaveItem, make thread_dir, enqueue the MediaDownloadItems.
ThreadReadSteps(ps) ==
    <<[op |-> "enqueue_json", post |-> 0], [op |-> "mkdir", post |-> 0]>>
      \o MediaOps(ps, 1)

\* The step of ThreadReadItem.process worker t is at.
ThreadOp(t) == ThreadReadSteps(posts)[step[t]]

\* A run of complete seeded with one ThreadReadItem, as start_queue seeds
\* it: the thread's response, its posts, and what is on disk before.
ThreadInit ==
    /\ worker_count \in 1..MaxWorkers
    /\ maxsize \in 0..MaxCap
    /\ initial_items = <<1>>
    /\ QueueNew(ThreadItems)
    /\ FetchIdle
    /\ kind = [i \in ThreadItems |->
                 IF i = 1 THEN [k |-> "thread", post |-> 0]
                 ELSE [k |-> "none", post |-> 0]]
    /\ status \in {200, 404}
    /\ posts \in UNION {[1..n -> BOOLEAN] : n \in 1..MaxPosts}
    /\ status = 404 => posts = <<FALSE>>
    /\ step = [t \in Workers |-> 0]
    /\ thread_dir \in BOOLEAN
    /\ \E have \in {"absent", "match", "other"} :
          /\ ~thread_dir => have = "absent"
          /\ ondisk = [p \in 1..MaxPosts |->
                         IF p <= Len(posts) /\ posts[p] THEN have ELSE "absent"]
    /\ had = {p \in 1..MaxPosts : ondisk[p] = "match"}
    /\ recorded = 0 /\ saved = FALSE /\ made_dir = FALSE
    /\ exc = [i \in ThreadItems |-> ""]

\* Line 21 of queue.py as written, item.process(queue=queue), on an item of
\* __main__.py, whose process takes (self, enqueue): the call raises
\* TypeError (unexpected keyword argument) and no line of process() runs.
ProcessTypeError(t) ==
    /\ tstate[t] = "process"
    /\ item[t] # 0 /\ kind[item[t]].k \in {"thread", "json", "media"}
    /\ ItemRaise(t)
    /\ exc' = [exc EXCEPT ![item[t]] = "TypeError"]
    /\ UNCHANGED <<fvars, kind, status, posts, step, thread_dir, ondisk,
                   recorded, saved, made_dir, had>>

\* Line 255: the ThreadReadItem awaits the thread's JSON.
ThreadGet(t) ==
    /\ Holds(t, "thread") /\ tstate[t] = "process"
    /\ AwaitIO(t)
    /\ step' = [step EXCEPT ![t] = 1]
    /\ UNCHANGED <<fvars, kind, status, posts, thread_dir, ondisk, recorded,
                   saved, made_dir, had, exc>>

\* Lines 257-258: the response is 404; ThreadNotFoundException is raised.
ThreadNotFound(t) ==
    /\ Holds(t, "thread") /\ tstate[t] = "body" /\ step[t] = 1
    /\ status = 404
    /\ ItemRaise(t)
    /\ exc' = [exc EXCEPT ![item[t]] = "ThreadNotFoundException"]
    /\ UNCHANGED <<fvars, kind, status, posts, step, thread_dir, ondisk,
                   recorded, saved, made_dir, had>>

\* Lines 284 and 293-300, await enqueue(item): the put of the JSONSaveItem or
\* of a MediaDownloadItem, or its retry after the worker was woken.  The
\* process() goes on to its next step when the put is done.
ThreadEnqueue(t) ==
    /\ Holds(t, "thread") /\ status = 200
    /\ step[t] \in 1..Len(ThreadReadSteps(posts))
    /\ ThreadOp(t).op \in {"enqueue_json", "enqueue_media"}
    /\ tstate[t] \in {"body", "put"}
    /\ ItemPut(t)
    /\ LET c == IF tstate[t] = "put" THEN putting[t] ELSE next_item IN
       kind' = [kind EXCEPT ![c] =
                  [k |-> IF ThreadOp(t).op = "enqueue_json" THEN "json"
                         ELSE "media",
                   post |-> ThreadOp(t).post]]
    /\ step' = [step EXCEPT ![t] = IF tstate'[t] = "body" THEN @ + 1 ELSE @]
    /\ UNCHANGED <<fvars, status, posts, thread_dir, ondisk, recorded, saved,
                   made_dir, had, exc>>

\* Lines 286-288: thread_dir is made if it is not there.
ThreadMkdir(t) ==
    /\ Holds(t, "thread") /\ status = 200
    /\ running = {t} /\ tstate[t] = "body"
    /\ step[t] \in 1..Len(ThreadReadSteps(posts))
    /\ ThreadOp(t).op = "mkdir"
    /\ thread_dir' = TRUE
    /\ made_dir' = (made_dir \/ ~thread_dir)
    /\ step' = [step EXCEPT ![t] = @ + 1]
    /\ UNCHANGED <<fvars, kind, status, posts, ondisk, recorded, saved, had,
                   exc>>
    /\ UNCHANGED <<cvars, qvars, tvars, lvars, mvars, gvars>>

\* Line 300 was the last: process() returns None.
ThreadReturn(t) ==
    /\ Holds(t, "thread") /\ status = 200
    /\ tstate[t] = "body"
    /\ step[t] = Len(ThreadReadSteps(posts)) + 1
    /\ ItemReturn(t, "none")
    /\ step' = [step EXCEPT ![t] = 0]
    /\ UNCHANGED <<fvars, kind, status, posts, thread_dir, ondisk, recorded,
                   saved, made_dir, had, exc>>

\* JSONSaveItem.process: json_path.open("w") raises FileNotFoundError if
\* thread_path is not there; otherwise thread.json is written and process()
\* returns None.
JSONSave(t) ==
    /\ Holds(t, "json") /\ tstate[t] = "process"
    /\ IF thread_dir
       THEN /\ ItemReturn(t, "none")
            /\ saved' = TRUE
            /\ exc' = exc
       ELSE /\ ItemRaise(t)
            /\ exc' = [exc EXCEPT ![item[t]] = "FileNotFoundError"]
            /\ saved' = saved
    /\ UNCHANGED <<fvars, kind, status, posts, step, thread_dir, ondisk,
                   recorded, made_dir, had>>

\* The file of the MediaDownloadItem worker t holds is there with the wanted
\* digest (line 228).
MediaFound(t) == thread_dir /\ ondisk[kind[item[t]].post] = "match"

\* Lines 228-233: the file is there; its size is reported.
MediaSkip(t) ==
    /\ Holds(t, "media") /\ tstate[t] = "process"
    /\ MediaFound(t)
    /\ ItemReturn(t, "none")
    /\ recorded' = recorded + FileSize(kind[item[t]].post)
    /\ UNCHANGED <<fvars, kind, status, posts, step, thread_dir, ondisk, saved,
                   made_dir, had, exc>>

\* Lines 235-236 and 186: download_file awaits the response.
MediaStream(t) ==
    /\ Holds(t, "media") /\ tstate[t] = "process"
    /\ ~MediaFound(t)
    /\ AwaitIO(t)
    /\ step' = [step EXCEPT ![t] = 1]
    /\ UNCHANGED <<fvars, kind, status, posts, thread_dir, ondisk, recorded,
                   saved, made_dir, had, exc>>

\* Lines 187-188: path.open("wb") raises FileNotFoundError if thread_dir is
\* not there; otherwise the file is created or truncated and the first chunk
\* awaited.
MediaOpen(t) ==
    /\ Holds(t, "media") /\ running = {t} /\ tstate[t] = "body"
    /\ step[t] = 1
    /\ IF thread_dir
       THEN /\ AwaitIO(t)
            /\ ondisk' = [ondisk EXCEPT ![kind[item[t]].post] = "partial"]
            /\ step' = [step EXCEPT ![t] = 2]
            /\ exc' = exc
       ELSE /\ ItemRaise(t)
            /\ exc' = [exc EXCEPT ![item[t]] = "FileNotFoundError"]
            /\ UNCHANGED <<ondisk, step>>
    /\ UNCHANGED <<fvars, kind, status, posts, thread_dir, recorded, saved,
                   made_dir, had>>

\* Lines 188-190 and 238: the file's bytes arrive (in one chunk: they are
\* fewer than max_chunk_size), are written and reported; the next chunk is
\* awaited.
MediaChunk(t) ==
    /\ Holds(t, "media") /\ tstate[t] = "body" /\ step[t] = 2
    /\ AwaitIO(t)
    /\ ondisk' = [ondisk EXCEPT ![kind[item[t]].post] = "match"]
    /\ recorded' = recorded + FileSize(kind[item[t]].post)
    /\ step' = [step EXCEPT ![t] = 3]
    /\ UNCHANGED <<fvars, kind, status, posts, thread_dir, saved, made_dir,
                   had, exc>>

\* The response has no more chunks: process() returns None.
MediaEnd(t) ==
    /\ Holds(t, "media") /\ tstate[t] = "body" /\ step[t] = 3
    /\ ItemReturn(t, "none")
    /\ step' = [step EXCEPT ![t] = 0]
    /\ UNCHANGED <<fvars, kind, status, posts, thread_dir, ondisk, recorded,
                   saved, made_dir, had, exc>>

\* The run as src/ has it: every call of process() raises TypeError, so
\* complete raises when it resumes and nothing is cancelled or gathered.
ThreadNext ==
    \/ Complete /\ UNCHANGED svars
    \/ RunOnce /\ UNCHANGED svars
    \/ \E t \in Workers : Resume(t) /\ UNCHANGED svars
    \/ JoinerStep /\ UNCHANGED svars
    \/ \E t \in Workers : WorkerGet(t) /\ UNCHANGED svars
    \/ \E t \in Workers : ProcessTypeError(t)
    \/ \E t \in Tasks : OnCompletion(t) /\ UNCHANGED svars
    \/ CompleteResume /\ UNCHANGED svars

ThreadSpec == ThreadInit /\ [][ThreadNext]_vars

\* The run with process() called as the items declare it,
\* item.process(enqueue=queue.put): worker_task's line 21 with its argument
\* replaced by the capability of the item's signature.
PortedNext ==
    \/ LoopNext
    \/ \E t \in Workers : ThreadGet(t)
    \/ \E t \in Workers : ThreadNotFound(t)
    \/ \E t \in Workers : ThreadEnqueue(t)
    \/ \E t \in Workers : ThreadMkdir(t)
    \/ \E t \in Workers : ThreadReturn(t)
    \/ \E t \in Workers : JSONSave(t)
    \/ \E t \in Workers : MediaSkip(t)
    \/ \E t \in Workers : MediaStream(t)
    \/ \E t \in Workers : MediaOpen(t)
    \/ \E t \in Workers : MediaChunk(t)
    \/ \E t \in Workers : MediaEnd(t)

PortedSpec == ThreadInit /\ [][PortedNext]_vars

\* ---------------------------------------------------------------- specification
\* The steps of an item's process(), for any Item.
ItemNext ==
    \/ \E t \in Workers : ItemAwait(t) /\ UNCHANGED svars
    \/ \E t \in Workers : ItemPut(t) /\ UNCHANGED svars
    \/ \E t \in Workers, sr \in {"none", "stop"} :
          ItemReturn(t, sr) /\ UNCHANGED svars
    \/ \E t \in Workers : ItemRaise(t) /\ UNCHANGED svars

Next == LoopNext \/ ItemNext

Spec == Init /\ [][Next]_vars

\* The loop runs every ready handle and awaited I/O completes.
FairSpec == Spec /\ WF_vars(Next)

TypeOK ==
    /\ worker_count \in 0..MaxWorkers /\ maxsize \in 0..MaxCap
    /\ unfinished_tasks \in 0..MaxItems
    /\ \A t \in Tasks : tstate[t] \in {"none", "get", "process", "body", "put"}
                                        \cup Suspended \cup DoneStates
    /\ \A t \in Tasks : fut[t] \in {"none", "pending", "result", "cancelled"}
    /\ running \subseteq Workers /\ Cardinality(running) <= 1
    /\ mainpc \in {"start", "wait", "gather", "returned", "raised"}
    /\ ntodo \in 0..Len(ready)

\* ---------------------------------------------------------------- outcomes
\* What complete surfaced to its caller.
Drained == mainpc = "returned" /\ error = NoResult
             /\ callbacks = <<AllItemsProcessed>>
StoppedBy(i) == mainpc = "returned" /\ error = NoResult
                  /\ callbacks = <<StopReason(i)>>
FailedBy(i) == mainpc = "raised" /\ error = ItemError(i) /\ callbacks = <<>>

NoStop == stopped_by = <<>>
NoFailure == failed_by = <<>>

\* The arguments the drain property is stated for.
ValidArgs == worker_count >= 1 /\ (maxsize = 0 \/ maxsize >= Len(initial_items))

\* Every worker that was started is suspended in put on a full buffer.
AllWorkersInPut ==
    /\ worker_count >= 1
    /\ \A t \in 1..worker_count : tstate[t] = "putter" /\ fut[t] = "pending"
    /\ full(queue)

\* ---------------------------------------------------------------- C1
\* C1: for every worker_count >= 1 and every capacity that holds the initial
\* items, a run in which no item returns a StopReason and no item raises
\* eventually has complete return with the outcome Drained.
C1_DrainLiveness ==
    ValidArgs => <>(Drained \/ ~NoStop \/ ~NoFailure)

\* C1, what holds instead: such a run ends Drained unless every worker is
\* suspended in put on a full buffer, where it stays for ever.
C1_DrainedOrPutDeadlock ==
    ValidArgs => <>(Drained \/ ~NoStop \/ ~NoFailure \/ AllWorkersInPut)

\* C1: with an unbounded queue the run does end Drained.
C1_UnboundedDrains ==
    (ValidArgs /\ maxsize = 0) => <>(Drained \/ ~NoStop \/ ~NoFailure)

\* ---------------------------------------------------------------- C2
\* C2: no item's process() is started more than once, no two workers hold the
\* same item, and when complete has returned Drained in a run without a
\* StopReason and without a failure, every item that was ever enqueued has been
\* executed exactly once.
C2_ExactlyOnce ==
    /\ \A i \in Items : executed[i] <= 1
    /\ \A t, u \in Workers : (t # u /\ item[t] # 0) => item[t] # item[u]
    /\ (Drained /\ NoStop /\ NoFailure) =>
          \A i \in Items : executed[i] = (IF i \in enqueued THEN 1 ELSE 0)

\* Two workers have drained a run in which an executing item enqueued another.
C2_Witness ==
    /\ Drained /\ NoStop /\ NoFailure
    /\ worker_count = 2
    /\ Cardinality(enqueued) > Len(initial_items)
    /\ Len(initial_items) >= 1
    /\ \A i \in enqueued : executed[i] = 1 /\ done_calls[i] = 1

\* ---------------------------------------------------------------- C6
\* Items dequeued and not yet marked done: those the workers hold.
InFlight == Cardinality({t \in Workers : item[t] # 0})

\* C6: in every reachable state pending + in_flight equals the items enqueued
\* so far minus the task_done calls so far; it is what the queue counts as
\* unfinished, and no counter is negative.
C6_Accounting ==
    /\ Len(queue) + InFlight = Cardinality(enqueued) - ndone
    /\ unfinished_tasks = Len(queue) + InFlight
    /\ unfinished_tasks >= 0 /\ Cardinality(enqueued) - ndone >= 0

\* Two workers, an item in the buffer, one held, one marked done, one enqueued
\* by an executing item.
C6_Witness ==
    /\ worker_count = 2
    /\ Len(queue) >= 1 /\ InFlight >= 1 /\ ndone >= 1
    /\ Cardinality(enqueued) > Len(initial_items)

\* ---------------------------------------------------------------- C3
\* C3: when exactly one item has returned a StopReason and none has failed, no
\* item that was in the buffer at that moment starts executing afterwards, and
\* the outcome complete surfaces is Stopped with that item's reason.
C3_StopPrecedence ==
    (Len(stopped_by) = 1 /\ NoFailure) =>
        /\ late_starts \cap Range(pending_at_stop) = {}
        /\ Ended => StoppedBy(stopped_by[1])

\* C3, first half alone.
C3_NoLateStart ==
    (Len(stopped_by) = 1 /\ NoFailure) =>
        late_starts \cap Range(pending_at_stop) = {}

\* C3, what holds of the outcome: the item's reason is given to the callback
\* and complete returns (the callback may be given other reasons as well).
C3_StopSurfaced ==
    (Ended /\ Len(stopped_by) = 1 /\ NoFailure) =>
        /\ mainpc = "returned" /\ error = NoResult
        /\ StopReason(stopped_by[1]) \in Range(callbacks)

\* ---------------------------------------------------------------- C4
\* C4: when exactly one item's execution has raised and no item returned a
\* StopReason before it (the failing worker is the first task to finish), the
\* outcome is Failed with that error, and neither Drained nor Stopped is
\* reported.
C4_FailurePrecedence ==
    (Ended /\ Len(failed_by) = 1 /\ first_done = ItemError(failed_by[1])) =>
        FailedBy(failed_by[1])

\* C4, what holds: complete raises that error (the callback may have been
\* called before it).
C4_ErrorRaised ==
    (Ended /\ Len(failed_by) = 1 /\ first_done = ItemError(failed_by[1])) =>
        mainpc = "raised" /\ error = ItemError(failed_by[1])

\* ---------------------------------------------------------------- C5
\* C5: complete surfaces exactly one outcome: stop_reason_callback is called
\* at most once, never together with a raised failure, and what is surfaced is
\* the result of the task that finished first.
C5_SingleOutcome ==
    /\ Len(callbacks) <= 1
    /\ error # NoResult => callbacks = <<>>
    /\ mainpc = "returned" => Len(callbacks) = 1
    /\ (Ended /\ first_done # NoResult) =>
          \/ error = NoResult /\ callbacks = <<first_done>>
          \/ error = first_done /\ callbacks = <<>>

\* ---------------------------------------------------------------- C7
\* C7: task_done is called exactly once for every item a worker dequeued and
\* executed to its end, also when the execution raised; the worker then holds
\* no item.
C7_TaskDoneOnFailure ==
    /\ \A i \in Items : done_calls[i] <= 1
    /\ \A i \in Range(failed_by) : done_calls[i] = 1
    /\ \A t \in Workers : tstate[t] = "raised" => item[t] = 0

\* C7, what holds: task_done is called exactly once for an item whose
\* execution returned and never for one whose execution raised.
C7_TaskDoneOnReturnOnly ==
    /\ \A i \in Items : done_calls[i] <= 1
    /\ \A i \in Range(failed_by) : done_calls[i] = 0
    /\ \A t \in Workers : tstate[t] = "returned" => item[t] = 0

\* ---------------------------------------------------------------- C8
\* C8: an item held by a worker that was cancelled inside the item's execution
\* is accounted for: task_done was called for it or it is back in the buffer.
C8_NoSilentDrop ==
    \A t \in Workers :
        (tstate[t] = "cancelled" /\ item[t] # 0) =>
            done_calls[item[t]] = 1 \/ item[t] \in Range(queue)

\* ---------------------------------------------------------------- C9
\* C9: when complete has handed control back, by returning or by raising,
\* every task it started has finished or has been cancelled and awaited.
C9_CoordinatedShutdown ==
    Ended => \A t \in Started : tstate[t] \in DoneStates

\* C9, what holds: on return every task has ended.
C9_ShutdownOnReturn ==
    mainpc = "returned" => \A t \in Started : tstate[t] \in DoneStates

\* ---------------------------------------------------------------- C10
\* C10: once the first task to finish has decided the outcome, no
\* CancelledError and no error of a worker that was still running is surfaced
\* as Failed or replaces that outcome.
C10_LateErrorsDiscarded ==
    Ended =>
        /\ error.kind # "cancelled"
        /\ first_done.kind \in {"stop", "drained"} => error = NoResult
        /\ first_done.kind = "error" => error = first_done

\* C10, what holds: no CancelledError is surfaced, and nothing that happens
\* after complete has resumed from asyncio.wait changes what it surfaces.
C10_GatherDiscards ==
    [][mainpc = "gather" => (callbacks' = callbacks /\ error' = error
                              /\ error = NoResult)]_vars

\* ---------------------------------------------------------------- C11
\* C11: complete called with worker_count < 1 fails with a configuration error
\* before any task is started: it never starts the joiner alone and never
\* waits on a queue no worker consumes.
C11_WorkerCountValidated ==
    (worker_count < 1 /\ mainpc # "start") =>
        /\ mainpc = "raised" /\ error = ValueError
        /\ Started = {}

\* ---------------------------------------------------------------- C12
\* C12: complete raises ValueError if and only if maxsize > 0 and there are
\* more initial items than maxsize; it is raised before any task is created
\* and before any item is executed; with maxsize = 0 seeding never fails.
C12_SeedingValidation ==
    mainpc # "start" =>
        /\ error = ValueError <=>
              (maxsize > 0 /\ Len(initial_items) > maxsize)
        /\ error = ValueError =>
              /\ mainpc = "raised" /\ Started = {} /\ ready = <<>>
              /\ \A i \in Items : executed[i] = 0
        /\ maxsize = 0 => error # ValueError

\* complete has raised ValueError on a queue too small for its initial items.
C12_Witness ==
    /\ mainpc = "raised" /\ error = ValueError
    /\ maxsize >= 1 /\ Len(initial_items) > maxsize /\ worker_count >= 1

\* ---------------------------------------------------------------- C13
\* C13: with maxsize > 0 the buffer never holds more than maxsize items; no
\* put completes while the buffer is full, a worker suspends in put only on a
\* full buffer and is woken only when a slot is free (or by cancellation); no
\* get completes on an empty buffer, a worker suspends in get only on an empty
\* buffer and is woken only when an item is there; with maxsize = 0 no worker
\* ever suspends in put.
C13_BoundedBlocking ==
    /\ [](maxsize > 0 => Len(queue) <= maxsize)
    /\ [](maxsize = 0 => \A t \in Workers : tstate[t] # "putter")
    /\ [][/\ full(queue) => put_order' = put_order
          /\ empty(queue) => get_order' = get_order
          /\ \A t \in Workers :
                /\ (tstate[t] # "putter" /\ tstate'[t] = "putter") => full(queue)
                /\ (tstate[t] # "getter" /\ tstate'[t] = "getter") => empty(queue)
                /\ (tstate[t] = "putter" /\ fut[t] = "pending"
                      /\ ~(tstate'[t] = "putter" /\ fut'[t] = "pending")) =>
                       \/ tstate'[t] = "putter" /\ fut'[t] = "result"
                            /\ ~full(queue')
                       \/ tstate'[t] = "putter" /\ fut'[t] = "cancelled"
                /\ (tstate[t] = "getter" /\ fut[t] = "pending"
                      /\ ~(tstate'[t] = "getter" /\ fut'[t] = "pending")) =>
                       \/ tstate'[t] = "getter" /\ fut'[t] = "result"
                            /\ ~empty(queue')
                       \/ tstate'[t] = "getter" /\ fut'[t] = "cancelled"
         ]_vars

\* A worker that suspended in put on a full buffer has been woken by a get
\* that freed a slot, while another worker is suspended in get.
C13_Witness ==
    /\ maxsize >= 1
    /\ \E t \in Workers : tstate[t] = "putter" /\ fut[t] = "result"
    /\ ~full(queue)
    /\ Len(put_order) > Len(initial_items)

\* ---------------------------------------------------------------- C18
\* C18: items are handed to the workers in the order in which their puts
\* completed: the items got so far are the items put first, in that order, and
\* the buffer holds the others in that order, for any number of workers.
C18_FIFO ==
    /\ Len(get_order) <= Len(put_order)
    /\ get_order = SubSeq(put_order, 1, Len(get_order))
    /\ queue = SubSeq(put_order, Len(get_order) + 1, Len(put_order))

\* Two workers have got three items, one of them put by an executing item,
\* and both are executing.
C18_Witness ==
    /\ worker_count = 2 /\ Len(get_order) >= 3
    /\ Len(put_order) > Len(initial_items)
    /\ \A t \in 1..worker_count : item[t] # 0

\* ---------------------------------------------------------------- C19
\* No item is in the buffer and none is held by a worker.
NothingLeft == queue = <<>> /\ InFlight = 0 /\ unfinished_tasks = 0

\* C19: the joiner completes, and Drained is reported, only in a state where
\* no item is pending or in flight and at least one item has been enqueued.
C19_DrainDetection ==
    /\ tstate[Joiner] = "returned" => (NothingLeft /\ enqueued # {})
    /\ Drained => (NothingLeft /\ enqueued # {})

\* C19 as amended: the joiner completes, and Drained is reported, only in a
\* state where no item is pending or in flight (with no initial items that is
\* so with nothing enqueued); at its first step it returns without suspending
\* if that holds and suspends otherwise; it never completes while an item is
\* pending or held.
C19_DrainOnlyWhenNothingLeft ==
    /\ [](tstate[Joiner] = "returned" => NothingLeft)
    /\ [](Drained => NothingLeft)
    /\ [][/\ (tstate[Joiner] = "new" /\ tstate'[Joiner] # "new" /\ NothingLeft)
               => tstate'[Joiner] = "returned"
          /\ (tstate[Joiner] = "new" /\ tstate'[Joiner] = "join")
               => ~NothingLeft
          /\ (tstate[Joiner] # "returned" /\ tstate'[Joiner] = "returned")
               => NothingLeft' /\ NothingLeft
         ]_vars

\* The joiner, which suspended at its first step, has completed after two
\* workers marked every item done, one of them put by an executing item.
C19_Witness ==
    /\ tstate[Joiner] = "returned" /\ worker_count = 2
    /\ Len(initial_items) >= 1
    /\ Cardinality(enqueued) > Len(initial_items)
    /\ ndone = Cardinality(enqueued)

\* ---------------------------------------------------------------- C14
\* The file the last execution found had the digest post_file.md5.
FoundWanted == before.exists /\ md5(before.data) = post_md5

\* The URL serves the content post_file.md5 is the digest of.
ServesWanted == md5(body) = post_md5

\* C14: an execution of a MediaDownloadItem that finds its destination file
\* with the digest post_file.md5 makes no transfer, reports post_file.size and
\* leaves the file alone; one that finds the file missing or with another
\* digest makes exactly one transfer, after which, the URL serving the wanted
\* content, the file has the digest post_file.md5.
C14_IdempotentFetch ==
    /\ transfers <= 1
    /\ (fpc = "idle" /\ last \in {"skipped", "fetched"}) =>
          IF FoundWanted
          THEN /\ last = "skipped" /\ transfers = 0
               /\ advanced = post_size /\ path = before
          ELSE /\ last = "fetched" /\ transfers = 1
               /\ ServesWanted =>
                     path.exists /\ md5(path.data) = post_md5

\* An execution found a file with another digest and replaced it, in more
\* than one chunk, by the wanted content.
C14_Witness ==
    /\ fpc = "idle" /\ last = "fetched" /\ runs = 1
    /\ before.exists /\ before.data # <<>> /\ ~FoundWanted
    /\ ServesWanted /\ path = File(body)
    /\ Len(body) > max_chunk_size

\* ---------------------------------------------------------------- C15
\* C15: after an execution that was cancelled or failed when the transfer had
\* written a strict prefix of the chunks, the next execution for the same
\* destination does not skip, fetches again, and ends with the file's digest
\* equal to post_file.md5; an execution after a completed transfer makes no
\* transfer (the URL serving the wanted content).
C15_InterruptedRuns ==
    (ServesWanted /\ runs >= 2) =>
        /\ prev = "torn" => last # "skipped"
        /\ (prev = "torn" /\ fpc = "idle" /\ last = "fetched") =>
               /\ transfers = 1
               /\ path.exists /\ md5(path.data) = post_md5
        /\ prev = "fetched" =>
               last = "skipped" /\ transfers = 0 /\ path = before

\* An execution torn after its first chunk left a nonempty strict prefix in
\* the file; the next execution fetched the whole content.
C15_Witness ==
    /\ ServesWanted /\ runs = 2 /\ fpc = "idle"
    /\ prev = "torn" /\ last = "fetched"
    /\ before.exists /\ before.data # <<>> /\ before.data # body
    /\ path = File(body)

\* ---------------------------------------------------------------- C16
\* The enqueued items of class k.
OfKind(k) == {i \in enqueued : kind[i].k = k}

\* The items whose process() was started.
Executed == {i \in DOMAIN executed : executed[i] > 0}

\* C16: when the thread's request answers 404, ThreadReadItem.process returns
\* a StopReason instead of raising: the run ends Stopped by the
\* ThreadReadItem, no further item is enqueued and no byte is recorded.
C16_NotFoundStops ==
    (status = 404 /\ Ended) =>
        /\ stopped_by = <<1>> /\ failed_by = <<>>
        /\ StoppedBy(1)
        /\ enqueued = {1} /\ recorded = 0

\* ---------------------------------------------------------------- C17
\* C17: a ThreadReadItem execution that succeeded has enqueued one
\* JSONSaveItem and one MediaDownloadItem for each post with a file, and
\* returned no StopReason; the run seeded with it, with two workers, over
\* three posts with files of sizes 10, 20 and 30, none on disk before, ends
\* Drained with five items executed and 60 bytes recorded.
C17_FanOut ==
    /\ (status = 200 /\ done_calls[1] = 1) =>
           /\ Cardinality(OfKind("json")) = 1
           /\ Cardinality(OfKind("media"))
                = Cardinality({p \in 1..Len(posts) : posts[p]})
           /\ \A p \in 1..Len(posts) :
                 posts[p] => \E i \in OfKind("media") : kind[i].post = p
           /\ stopped_by = <<>>
    /\ (status = 200 /\ Ended /\ worker_count = 2
          /\ posts = <<TRUE, TRUE, TRUE>> /\ had = {}) =>
           /\ Drained
           /\ Cardinality(Executed) = 5
           /\ \A i \in Executed : executed[i] = 1
           /\ recorded = 60

C21_WorkerLoop ==
    /\ [](IF mainpc = "start" \/ error = ValueError
          THEN Started = {}
          ELSE /\ Started \cap Workers = 1..worker_count
               /\ Cardinality(Started \cap Workers) = worker_count
               /\ Joiner \in Started)
    /\ [][\A t \in Workers :
            /\ (InProcess(t) /\ ndone' = ndone + 1 /\ running = {t}
                  /\ tstate'[t] # "returned") =>
                   tstate'[t] = "get" /\ running' = {t}
            /\ (tstate[t] = "get" /\ running = {t}) =>
                   /\ tstate'[t] = (IF empty(queue) THEN "getter" ELSE "process")
                   /\ empty(queue) => tres'[t] = NoResult
            /\ (tstate[t] \notin DoneStates /\ tstate'[t] \in DoneStates) =>
                   \/ /\ tstate'[t] = "returned" /\ InProcess(t)
                      /\ tres'[t] = StopReason(item[t])
                      /\ done_calls'[item[t]] = done_calls[item[t]] + 1
                   \/ /\ tstate'[t] = "raised" /\ InProcess(t)
                      /\ tres'[t] = ItemError(item[t])
                   \/ /\ tstate'[t] = "cancelled"
                      /\ tres'[t] = CancelledError
                      /\ must_cancel[t] \/ fut[t] = "cancelled"
            /\ (tstate[t] \in DoneStates) => tstate'[t] = tstate[t]
         ]_vars

\* Two workers and the joiner run; two items are done and the third is being
\* executed, so one worker has gone round its loop; the other worker, on the
\* empty buffer, is suspended in get and has not ended.
C21_Witness ==
    /\ worker_count = 2 /\ Started = {Joiner, 1, 2}
    /\ NoStop /\ NoFailure /\ ndone = 2
    /\ empty(queue)
    /\ \E t, u \in Workers :
          /\ tstate[t] \in {"process", "body", "io"} /\ item[t] # 0
          /\ tstate[u] = "getter" /\ fut[u] = "pending"

\* ---------------------------------------------------------------- C22
\* C22: once an item's process() has raised, the joiner has not returned
\* and never returns: task_done was not called for the item that raised, so
\* _unfinished_tasks stays above zero; stop_reason_callback is never given
\* 'All items processed' in a run with a failure, and such a run never ends
\* Drained.
C22_FailureExcludesDrained ==
    ~NoFailure =>
        /\ tstate[Joiner] # "returned"
        /\ tres[Joiner] # AllItemsProcessed
        /\ unfinished_tasks >= Len(failed_by) /\ ~finished
        /\ \A i \in 1..Len(callbacks) : callbacks[i] # AllItemsProcessed
        /\ ~Drained

\* An item raised; the other worker went on and every other item is done and
\* the buffer is empty; complete has raised and the joiner still waits.
C22_Witness ==
    /\ Len(failed_by) = 1 /\ worker_count = 2
    /\ ndone = Cardinality(enqueued) - 1 /\ ndone >= 2
    /\ empty(queue) /\ \A t \in Workers : tstate[t] \in {"raised", "getter"}
    /\ mainpc = "raised"
    /\ tstate[Joiner] = "join" /\ fut[Joiner] = "pending"

\* ---------------------------------------------------------------- C23
\* The joiner has returned and no item returned a StopReason or raised.
DrainedClean == tstate[Joiner] = "returned" /\ NoStop /\ NoFailure

\* C23: when the joiner has returned and no item returned a StopReason or
\* raised, complete cancels every one of the worker_count workers while it
\* is suspended in get and holds no item; the cancellation interrupts no
\* process(), and when complete has returned every item that was enqueued has
\* been executed and marked done.
C23_DrainCancelsIdle ==
    /\ [](DrainedClean =>
            /\ \A t \in Workers :
                  /\ item[t] = 0 /\ putting[t] = 0
                  /\ tstate[t] \in {"none", "new", "get", "getter", "cancelled"}
            /\ empty(queue) /\ unfinished_tasks = 0
            /\ \A i \in enqueued : executed[i] = 1 /\ done_calls[i] = 1)
    /\ [][DrainedClean =>
            /\ (mainpc = "wait" /\ mainpc' # "wait") =>
                  \A t \in 1..worker_count :
                     /\ tstate[t] = "getter" /\ fut[t] = "pending"
                     /\ fut'[t] = "cancelled"
            /\ \A t \in Workers :
                  (tstate[t] # "cancelled" /\ tstate'[t] = "cancelled") =>
                     tstate[t] = "getter" /\ fut[t] = "cancelled"
         ]_vars

\* Two workers have executed the items, one of them enqueued by another; the
\* joiner returned, both workers were cancelled in get, and complete returned.
C23_Witness ==
    /\ DrainedClean /\ Drained
    /\ worker_count = 2
    /\ tstate[1] = "cancelled" /\ tstate[2] = "cancelled"
    /\ Cardinality(enqueued) > Len(initial_items) /\ ndone = Cardinality(enqueued)
    /\ nget >= 2

====
